---- MODULE Spec2Model ----
(***************************************************************************)
(* aws_lambda_apigateway: a command-line wrapper that wires a REST         *)
(* endpoint of the API-gateway control plane to a function of the          *)
(* compute-function registry.                                              *)
(*                                                                         *)
(* One behaviour is a sequence of command-line invocations.  Each          *)
(* invocation constructs a session, runs one operation as a sequence of    *)
(* synchronous control-plane calls (one action per call), prints its       *)
(* outcome and exits.  The remote account (endpoints, permission grants)   *)
(* persists between invocations; everything else is per invocation.        *)
(*                                                                         *)
(* Python strings are TLA+ strings and f-strings are concatenations (\o).  *)
(* The one string the code parses, the function ARN, is kept as the        *)
(* sequence of its lexical tokens (":" is a token of its own), so that     *)
(* str.split(':') is computed, and rendered to a string where it is        *)
(* interpolated.                                                           *)
(***************************************************************************)
EXTENDS Integers, Sequences, FiniteSets, TLC

\* ------------------------------------------------------------------ bounds
\* Number of endpoint ids the control plane hands out in one behaviour.
MaxApis == 2
\* Number of seconds that pass in one behaviour.
MaxClock == 1

\* ------------------------------------------------------------------ values
\* Python's None.
None == "<None>"

\* The account's environment: the registered credential profiles, the region
\* the credential chain falls back to, and the compute-function registry.
RegisteredProfiles == {"default", "dev"}
DefaultRegion == "us-east-1"
FunctionArns ==
  [x \in {"demo-fn"} |->
     <<"arn", ":", "aws", ":", "lambda", ":", "us-east-1", ":", "123456789012",
       ":", "function", ":", x>>]

\* Inputs of the command line.
ProfileInputs == {None, "", "latest", "dev", "ghost"}
\* --profile of the subcommands that provision: absent, or not registered.
\* (The resolvers themselves are run on every profile of ProfileInputs.)
CliProfileInputs == {None, "ghost"}
RegionInputs == {None, "eu-west-1"}
OutputInputs == {"text", "json"}
ApiNameInputs == {"demo-api"}
LambdaNameInputs == {"demo-fn", "ghost-fn"}
DescriptionInputs == {"desc"}
PathInputs == {"/demo-fn", "/nope"}
\* --http-method and --body of test-invoke (None: the option is absent).
InvokeInputs == {<<None, None>>, <<"GET", "">>, <<"POST", "{\"k\": 1}">>}

\* Ids the control plane assigns: the n-th endpoint container, its root node,
\* the child node and the deployment made for it.
ApiIdOf(n) == "api" \o ToString(n)
RootIdOf(n) == "root" \o ToString(n)
ResourceIdOf(n) == "res" \o ToString(n)
DeploymentIdOf(n) == "dep" \o ToString(n)
ApiIdInputs == {ApiIdOf(n) : n \in 1..MaxApis} \cup {"api0"}

\* ------------------------------------------------------------------ strings
RECURSIVE Render(_)
\* str of a token sequence: the tokens, concatenated.
Render(toks) == IF toks = <<>> THEN "" ELSE Head(toks) \o Render(Tail(toks))

RECURSIVE SplitFrom(_, _, _)
SplitFrom(toks, sep, cur) ==
  IF toks = <<>> THEN <<cur>>
  ELSE IF Head(toks) = sep THEN <<cur>> \o SplitFrom(Tail(toks), sep, "")
  ELSE SplitFrom(Tail(toks), sep, cur \o Head(toks))

\* str.split(sep): the fields between the separators, as strings.
Split(toks, sep) == SplitFrom(toks, sep, "")

\* ------------------------------------------------------------------ errors
ClientError(code, operation) ==
  [type |-> "ClientError", code |-> code,
   msg |-> "An error occurred (" \o code \o ") when calling the " \o operation
           \o " operation"]
ValueError(msg) == [type |-> "ValueError", code |-> "", msg |-> msg]
TypeError(msg) == [type |-> "TypeError", code |-> "", msg |-> msg]
IndexError == [type |-> "IndexError", code |-> "", msg |-> "list index out of range"]
ProfileNotFound(profile) ==
  [type |-> "ProfileNotFound", code |-> "",
   msg |-> "The config profile (" \o profile \o ") could not be found"]

Return(v) == [kind |-> "return", value |-> v]
Raise(e) == [kind |-> "raise", error |-> e]
\* A call that returned None, or did not return yet.
NoResult == [kind |-> "none"]

\* ------------------------------------------------------------------ state
VARIABLES
  pc,        \* where the running invocation is ("idle", a step, "done")
  cmd,       \* the invocation: subcommand and its options
  session,   \* the boto3 session of the invocation (or None)
  sessionCalls, \* the keyword arguments of each boto3.Session(...) call made
  loc,       \* local variables of the running operation
  calls,     \* the control-plane calls issued by the invocation, in order
  result,    \* what the operation returned or raised
  stdout,    \* lines echoed to the output stream
  stderr,    \* lines echoed to the error stream
  exitCode,  \* process exit code (None while running)
  apis,      \* remote: endpoint containers by id
  grants,    \* remote: invoke-permission statements on functions
  nextApi,   \* remote: how many endpoint ids were handed out, plus one
  clock      \* wall-clock time, in whole seconds

vars == <<pc, cmd, session, sessionCalls, loc, calls, result, stdout, stderr,
          exitCode, apis, grants, nextApi, clock>>
remote == <<apis, grants, nextApi>>
cli == <<stdout, stderr, exitCode>>

NoCmd == [name |-> "none"]
NoFunction == [Configuration |-> [FunctionName |-> None, FunctionArn |-> <<>>]]
NoLoc == [lambda_function |-> NoFunction, api_id |-> None, root_id |-> None,
          resource_id |-> None]
NoApis == [x \in {} |-> None]

Init ==
  /\ pc = "idle"
  /\ cmd = NoCmd
  /\ session = None
  /\ sessionCalls = <<>>
  /\ loc = NoLoc
  /\ calls = <<>>
  /\ result = NoResult
  /\ stdout = <<>>
  /\ stderr = <<>>
  /\ exitCode = None
  /\ apis = NoApis
  /\ grants = {}
  /\ nextApi = 1
  /\ clock = 0

\* ------------------------------------------------------------------ sessions
\* A variant of boto3.Session that looks the profile up only when a client
\* first needs credentials.
Boto3Session_Lazy(kwargs) ==
  Return([region_name |-> IF kwargs.region_name # None
                          THEN kwargs.region_name ELSE DefaultRegion])

\* A variant of boto3.Session whose region is always the default of the
\* credential chain.
Boto3Session_ChainRegion(kwargs) ==
  IF /\ "profile_name" \in DOMAIN kwargs
     /\ kwargs.profile_name # None
     /\ kwargs.profile_name \notin RegisteredProfiles
  THEN Raise(ProfileNotFound(kwargs.profile_name))
  ELSE Return([region_name |-> DefaultRegion])

\* boto3.Session(**kwargs): fails at construction when a profile is named that
\* is not registered; otherwise a handle bound to the given region, or to the
\* default region of the credential chain when none is given.
Boto3Session(kwargs) ==
  IF /\ "profile_name" \in DOMAIN kwargs
     /\ kwargs.profile_name # None
     /\ kwargs.profile_name \notin RegisteredProfiles
  THEN Raise(ProfileNotFound(kwargs.profile_name))
  ELSE Return([region_name |-> IF kwargs.region_name # None
                               THEN kwargs.region_name ELSE DefaultRegion])

\* A variant of _create_session that leaves out an absent or empty profile.
_create_session_Truthy(profile_name, region_name) ==
  IF profile_name = "latest" \/ profile_name = None \/ profile_name = ""
  THEN [region_name |-> region_name]
  ELSE [profile_name |-> profile_name, region_name |-> region_name]

\* APIGatewayLambdaIntegration._create_session: the keyword arguments it
\* passes to boto3.Session.
_create_session(profile_name, region_name) ==
  IF profile_name = "latest"
  THEN [region_name |-> region_name]
  ELSE [profile_name |-> profile_name, region_name |-> region_name]

\* A variant of get_session without the "latest" branch.
get_session_NoLatest(profile_name, region_name) ==
  IF profile_name # None /\ profile_name # ""
  THEN [profile_name |-> profile_name, region_name |-> region_name]
  ELSE [region_name |-> region_name]

\* ProfileManager.get_session: the keyword arguments it passes to
\* boto3.Session ("elif profile_name:" is false for None and for "").
get_session(profile_name, region_name) ==
  IF profile_name = "latest"
  THEN [region_name |-> region_name]
  ELSE IF profile_name # None /\ profile_name # ""
  THEN [profile_name |-> profile_name, region_name |-> region_name]
  ELSE [region_name |-> region_name]

\* ------------------------------------------------------------------ calls
\* A call and what it came to, as the log of the invocation keeps it.
Call(service, op, args, response) ==
  [service |-> service, op |-> op, args |-> args, response |-> response]
\* The response of a call that answers nothing the code reads.
Ok == Return([ok |-> TRUE])

\* A fault of the control plane (throttling, denied access, outage) that any
\* call can meet.
Fault(operation) == ClientError("TooManyRequestsException", operation)

\* The nodes of an endpoint as one get_resources call may list them: the
\* nodes in creation order, or any sub-list of them (a stale or truncated
\* read).
RECURSIVE SubLists(_)
SubLists(s) ==
  IF s = <<>> THEN {<<>>}
  ELSE LET rest == SubLists(Tail(s))
       IN rest \cup {<<Head(s)>> \o r : r \in rest}

\* ------------------------------------------------------------------ output
\* A timestamp member of a response, as botocore hands it over: a datetime
\* object.
Datetime(text) == [type |-> "datetime", text |-> text]

\* str(value) of a timestamp, as an f-string interpolates it.
Str(value) == value.text

\* The value the subcommand c got from its operation holds a datetime: the
\* createdDate of an endpoint in what get_rest_apis and get_rest_api return.
HoldsDatetime(c, value) ==
  CASE c.name = "list-apis" ->
         \E i \in 1..Len(value) : value[i].createdDate.type = "datetime"
    [] c.name = "get-api" -> value.createdDate.type = "datetime"
    [] OTHER -> FALSE

\* json.dumps(value, indent=2) with the default encoder: the text, or the
\* TypeError of a value the encoder does not know.
JsonDumps(c, value) ==
  IF HoldsDatetime(c, value)
  THEN Raise(TypeError("Object of type datetime is not JSON serializable"))
  ELSE Return([json |-> value])

RECURSIVE ApiLines(_)
ApiLines(items) ==
  IF items = <<>> THEN <<>>
  ELSE <<"  ID: " \o Head(items).id, "  Name: " \o Head(items).name,
         "  Created: " \o Str(Head(items).createdDate), "">> \o ApiLines(Tail(items))

RECURSIVE ProfileLines(_)
ProfileLines(items) ==
  IF items = <<>> THEN <<>> ELSE <<"  " \o Head(items)>> \o ProfileLines(Tail(items))

\* What the subcommand c echoes for the value v of its operation in text
\* format.
TextLines(c, v) ==
  LET name == c.name IN
  CASE name = "create-api" ->
         <<"API Gateway created successfully!", "API ID: " \o v.api_id,
           "API Name: " \o v.api_name, "Lambda Function: " \o v.lambda_name,
           "Lambda ARN: " \o v.lambda_arn, "Invoke URL: " \o v.invoke_url,
           "Stage: " \o v.stage>>
    [] name = "delete-api" ->
         <<"API Gateway " \o c.api_id \o " deleted successfully!">>
    [] name = "list-apis" ->
         IF v = <<>> THEN <<"No API Gateways found.">>
         ELSE <<"API Gateways:">> \o ApiLines(v)
    [] name = "get-api" ->
         <<"API Gateway Details:", "  ID: " \o v.id, "  Name: " \o v.name,
           "  Description: " \o v.description,
           "  Created: " \o Str(v.createdDate),
           "  API Key Source: N/A", "  Endpoint Configuration: ['N/A']">>
    [] name = "test-invoke" ->
         <<"Test Invoke Result:", "  Status: " \o ToString(v.status),
           "  Status Code: N/A", "  Response Body: " \o v.body>>
    [] name = "list-profiles" ->
         IF v = <<>> THEN <<"No AWS profiles found.">>
         ELSE <<"AWS Profiles:">> \o ProfileLines(v)
    [] name = "get-profile-info" ->
         <<"Profile Information:", "  Profile: " \o v.profile,
           "  Account ID: " \o v.account_id, "  User ID: " \o v.user_id,
           "  ARN: " \o v.arn, "  Region: " \o v.region>>

\* What the try block of the subcommand c comes to, given what its operation
\* came to: the error of the operation, the error of json.dumps, or the lines
\* it echoes in the chosen format.
TryBlock(c, r, output) ==
  IF r.kind = "raise" THEN r
  ELSE IF output = "json"
  THEN LET dumped == JsonDumps(c, r.value)
       IN IF dumped.kind = "raise" THEN dumped ELSE Return(<<dumped.value>>)
  ELSE Return(TextLines(c, r.value))

\* The end of every subcommand c: the lines are echoed and the process ends
\* normally, or the except clause echoes the error to the error stream and
\* calls sys.exit(1).
Exit(c, r, output) ==
  LET t == TryBlock(c, r, output)
  IN IF t.kind = "raise"
     THEN [stdout |-> <<>>, stderr |-> <<"Error: " \o t.error.msg>>, exitCode |-> 1]
     ELSE [stdout |-> t.value, stderr |-> <<>>, exitCode |-> 0]

\* ------------------------------------------------------------------ entry
Idle == pc = "idle"

\* A new process: nothing is carried over but the remote account.  The
\* options --profile and --region are read by the first statement of the
\* subcommand; the other options are drawn where the subcommand first reads
\* them.
Begin(name, profile, region) ==
  /\ Idle
  /\ cmd' = [name |-> name, profile |-> profile, region |-> region]
  /\ UNCHANGED <<loc, calls, remote, clock>>

\* An operation ends: its value or its error goes to the subcommand, which
\* echoes it (--output is read here) and ends the process.
Finish(r) ==
  /\ result' = r
  /\ pc' = "done"
  /\ \E output \in OutputInputs :
       LET e == Exit(cmd', r, output)
       IN stdout' = e.stdout /\ stderr' = e.stderr /\ exitCode' = e.exitCode

\* APIGatewayLambdaIntegration.__init__ as the first statement of a
\* subcommand: on success the operation is called next, on failure the
\* subcommand's except clause is entered.
Construct(profile, region, first) ==
  LET kwargs == _create_session(profile, region)
      s == Boto3Session(kwargs)
  IN /\ sessionCalls' = <<kwargs>>
     /\ IF s.kind = "return"
        THEN /\ session' = s.value
             /\ pc' = first
             /\ UNCHANGED <<result, cli>>
        ELSE /\ session' = None
             /\ Finish(s)

\* The first step of each subcommand that builds an
\* APIGatewayLambdaIntegration.
FirstStep ==
  [x \in {"create-api", "delete-api", "list-apis", "get-api", "test-invoke"} |->
     CASE x = "create-api" -> "create_api.get_function"
       [] x = "delete-api" -> "delete_api.delete_rest_api"
       [] x = "list-apis" -> "list_apis.get_rest_apis"
       [] x = "get-api" -> "get_api.get_rest_api"
       [] x = "test-invoke" -> "test_invoke_api.get_resources"]

\* One of the subcommands in names up to the call of its operation.
Invoke(names) ==
  \E name \in names, profile \in CliProfileInputs, region \in RegionInputs :
    /\ name = "create-api" => nextApi <= MaxApis
    /\ Begin(name, profile, region)
    /\ Construct(profile, region, FirstStep[name])

\* The subcommands create-api, delete-api, list-apis, get-api and
\* test-invoke up to the call of the operation.
cli_integration == Invoke(DOMAIN FirstStep)

\* The subcommands that change the remote account.
cli_provision == Invoke({"create-api", "delete-api"})

\* The options of the running subcommand, with those in opts added.
WithOptions(opts) == opts @@ cmd

\* ------------------------------------------------------------------ create
\* lambda_client.get_function as the registry answers it.
GetFunction(lambda_name, fault) ==
  IF fault THEN Raise(Fault("GetFunction"))
  ELSE IF lambda_name \notin DOMAIN FunctionArns
  THEN Raise(ClientError("ResourceNotFoundException", "GetFunction"))
  ELSE Return([Configuration |-> [FunctionName |-> lambda_name,
                                  FunctionArn |-> FunctionArns[lambda_name]]])

\* A variant of _get_lambda_function that re-raises the registry's not-found
\* like any other error.
_get_lambda_function_Reraise(r) == r

\* A variant of _get_lambda_function that returns None for every error of the
\* registry.
_get_lambda_function_NoneOnError(r) == IF r.kind = "raise" THEN NoResult ELSE r

\* _get_lambda_function: None for the registry's not-found, any other error
\* re-raised, the response otherwise.
_get_lambda_function(r) ==
  IF r.kind = "raise" /\ r.error.code = "ResourceNotFoundException"
  THEN NoResult
  ELSE r

\* create_api, lines 59-63: the function is looked up; no response is the
\* local ValueError, which the except clause (ClientError only) lets pass.
create_get_function ==
  /\ pc = "create_api.get_function"
  /\ \E api_name \in ApiNameInputs, lambda_name \in LambdaNameInputs,
        description \in DescriptionInputs, fault \in BOOLEAN :
       LET response == GetFunction(lambda_name, fault)
           r == _get_lambda_function(response)
       IN /\ cmd' = WithOptions([api_name |-> api_name, lambda_name |-> lambda_name,
                                 description |-> description])
          /\ calls' = Append(calls, Call("lambda", "get_function",
                                         [FunctionName |-> lambda_name], response))
          /\ IF r.kind = "raise"
             THEN Finish(r) /\ UNCHANGED loc
             ELSE IF r.kind = "none"
             THEN /\ Finish(Raise(ValueError("Lambda function '" \o lambda_name
                                             \o "' not found")))
                  /\ UNCHANGED loc
             ELSE /\ loc' = [loc EXCEPT !.lambda_function = r.value]
                  /\ pc' = "create_api.create_rest_api"
                  /\ UNCHANGED <<result, cli>>
  /\ UNCHANGED <<session, sessionCalls, remote, clock>>

\* What the control plane holds for a new endpoint container: the implicit
\* root node and nothing else.
NewApi(n, name, description) ==
  [name |-> name, description |-> description,
   resources |-> <<[id |-> RootIdOf(n), path |-> "/", parentId |-> None]>>,
   methods |-> {}, integrations |-> {}, methodResponses |-> {},
   integrationResponses |-> {}, deployments |-> {}]

PutApi(id, a) == [x \in DOMAIN apis \cup {id} |-> IF x = id THEN a ELSE apis[x]]

\* The number of the endpoint with this id (ids are handed out in order).
ApiNumber(id) == CHOOSE n \in 1..MaxApis : ApiIdOf(n) = id

\* A variant of the except clause that deletes the endpoint made so far before
\* it re-raises.
Abort_Rollback(e) ==
  /\ Finish(Raise(e))
  /\ apis' = [x \in DOMAIN apis \ {loc.api_id} |-> apis[x]]
  /\ UNCHANGED <<loc, grants, nextApi>>

\* An error leaves create_api: the except clause (lines 150-152) logs a
\* ClientError and re-raises it, any other error passes it by; nothing is
\* undone.
Abort(e) == Finish(Raise(e)) /\ UNCHANGED <<loc, remote>>

\* A variant of lines 65-72 that takes over an endpoint of the requested
\* name when the account holds one.
create_create_rest_api_Reuse ==
  /\ pc = "create_api.create_rest_api"
  /\ UNCHANGED cmd
  /\ \E fault \in BOOLEAN :
       LET args == [name |-> cmd.api_name, description |-> cmd.description,
                    endpointConfiguration |-> [types |-> <<"REGIONAL">>]]
           same == {x \in DOMAIN apis : apis[x].name = cmd.api_name}
           id == IF same = {} THEN ApiIdOf(nextApi) ELSE CHOOSE x \in same : TRUE
           api == IF fault THEN Raise(Fault("CreateRestApi"))
                  ELSE Return([id |-> id])
       IN
       /\ calls' = Append(calls, Call("apigateway", "create_rest_api", args, api))
       /\ IF api.kind = "raise" THEN Abort(api.error)
          ELSE /\ apis' = IF same = {}
                          THEN PutApi(id, NewApi(nextApi, cmd.api_name, cmd.description))
                          ELSE apis
               /\ nextApi' = IF same = {} THEN nextApi + 1 ELSE nextApi
               /\ loc' = [loc EXCEPT !.api_id = api.value.id]
               /\ pc' = "create_api.get_resources"
               /\ UNCHANGED <<result, cli, grants>>
  /\ UNCHANGED <<session, sessionCalls, clock>>

\* create_api, lines 65-72.
create_create_rest_api ==
  /\ pc = "create_api.create_rest_api"
  /\ UNCHANGED cmd
  /\ \E fault \in BOOLEAN :
       LET args == [name |-> cmd.api_name, description |-> cmd.description,
                    endpointConfiguration |-> [types |-> <<"REGIONAL">>]]
           api == IF fault THEN Raise(Fault("CreateRestApi"))
                  ELSE Return([id |-> ApiIdOf(nextApi)])
       IN
       /\ calls' = Append(calls, Call("apigateway", "create_rest_api", args, api))
       /\ IF api.kind = "raise" THEN Abort(api.error)
          ELSE /\ apis' = PutApi(ApiIdOf(nextApi),
                                 NewApi(nextApi, cmd.api_name, cmd.description))
               /\ nextApi' = nextApi + 1
               /\ loc' = [loc EXCEPT !.api_id = api.value.id]
               /\ pc' = "create_api.get_resources"
               /\ UNCHANGED <<result, cli, grants>>
  /\ UNCHANGED <<session, sessionCalls, clock>>

\* apigateway_client.get_resources as the control plane answers it.
GetResources(api_id, items, fault) ==
  IF fault THEN Raise(Fault("GetResources"))
  ELSE IF api_id \notin DOMAIN apis
  THEN Raise(ClientError("NotFoundException", "GetResources"))
  ELSE Return([items |-> items])

\* The listings one get_resources call on the endpoint may return.
ListingsOf(api_id) ==
  IF api_id \in DOMAIN apis THEN SubLists(apis[api_id].resources) ELSE {<<>>}

\* [resource['id'] for resource in items if resource['path'] == '/']
RECURSIVE RootIds(_)
RootIds(items) ==
  IF items = <<>> THEN <<>>
  ELSE (IF Head(items).path = "/" THEN <<Head(items).id>> ELSE <<>>)
       \o RootIds(Tail(items))

\* A variant of lines 74-77 that deletes the new container when its listing
\* has no root node.
create_get_resources_Cleanup ==
  /\ pc = "create_api.get_resources"
  /\ UNCHANGED cmd
  /\ \E fault \in BOOLEAN, items \in ListingsOf(loc.api_id) :
       LET resources == GetResources(loc.api_id, items, fault)
           listed == Call("apigateway", "get_resources",
                          [restApiId |-> loc.api_id], resources)
       IN
       IF resources.kind = "raise"
       THEN calls' = Append(calls, listed) /\ Abort(resources.error)
       ELSE IF RootIds(resources.value.items) = <<>>
       THEN /\ calls' = calls \o <<listed, Call("apigateway", "delete_rest_api",
                                               [restApiId |-> loc.api_id], Ok)>>
            /\ apis' = [x \in DOMAIN apis \ {loc.api_id} |-> apis[x]]
            /\ Finish(Raise(IndexError))
            /\ UNCHANGED <<loc, grants, nextApi>>
       ELSE /\ calls' = Append(calls, listed)
            /\ loc' = [loc EXCEPT !.root_id = RootIds(resources.value.items)[1]]
            /\ pc' = "create_api.create_resource"
            /\ UNCHANGED <<result, cli, remote>>
  /\ UNCHANGED <<session, sessionCalls, clock>>

\* create_api, lines 74-77: the [0] of an empty list is an IndexError, which
\* the except clause (ClientError only) does not catch.
create_get_resources ==
  /\ pc = "create_api.get_resources"
  /\ UNCHANGED cmd
  /\ \E fault \in BOOLEAN, items \in ListingsOf(loc.api_id) :
       LET resources == GetResources(loc.api_id, items, fault)
       IN
       /\ calls' = Append(calls, Call("apigateway", "get_resources",
                                      [restApiId |-> loc.api_id], resources))
       /\ IF resources.kind = "raise" THEN Abort(resources.error)
          ELSE IF RootIds(resources.value.items) = <<>> THEN Abort(IndexError)
          ELSE /\ loc' = [loc EXCEPT !.root_id = RootIds(resources.value.items)[1]]
               /\ pc' = "create_api.create_resource"
               /\ UNCHANGED <<result, cli, remote>>
  /\ UNCHANGED <<session, sessionCalls, clock>>

\* The path the control plane gives a node made under a parent node.
ChildPath(parentPath, pathPart) ==
  IF parentPath = "/" THEN "/" \o pathPart ELSE parentPath \o "/" \o pathPart

PathOf(api, id) ==
  LET i == CHOOSE k \in 1..Len(api.resources) : api.resources[k].id = id
  IN api.resources[i].path

\* A variant of lines 79-85 that names the child node after the endpoint.
create_create_resource_ApiNamePart ==
  /\ pc = "create_api.create_resource"
  /\ UNCHANGED cmd
  /\ \E fault \in BOOLEAN :
       LET args == [restApiId |-> loc.api_id, parentId |-> loc.root_id,
                    pathPart |-> cmd.api_name]
           api == apis[loc.api_id]
           node == [id |-> ResourceIdOf(ApiNumber(loc.api_id)),
                    path |-> ChildPath(PathOf(api, args.parentId), args.pathPart),
                    parentId |-> args.parentId]
           resource == IF fault THEN Raise(Fault("CreateResource")) ELSE Return(node)
       IN
       /\ calls' = Append(calls, Call("apigateway", "create_resource", args, resource))
       /\ IF resource.kind = "raise" THEN Abort(resource.error)
          ELSE    /\ apis' = PutApi(loc.api_id,
                               [api EXCEPT !.resources = Append(@, node)])
                  /\ loc' = [loc EXCEPT !.resource_id = resource.value.id]
                  /\ pc' = "create_api.put_method"
                  /\ UNCHANGED <<result, cli, grants, nextApi>>
  /\ UNCHANGED <<session, sessionCalls, clock>>

\* create_api, lines 79-85.
create_create_resource ==
  /\ pc = "create_api.create_resource"
  /\ UNCHANGED cmd
  /\ \E fault \in BOOLEAN :
       LET args == [restApiId |-> loc.api_id, parentId |-> loc.root_id,
                    pathPart |-> cmd.lambda_name]
           api == apis[loc.api_id]
           node == [id |-> ResourceIdOf(ApiNumber(loc.api_id)),
                    path |-> ChildPath(PathOf(api, args.parentId), args.pathPart),
                    parentId |-> args.parentId]
           resource == IF fault THEN Raise(Fault("CreateResource")) ELSE Return(node)
       IN
       /\ calls' = Append(calls, Call("apigateway", "create_resource", args, resource))
       /\ IF resource.kind = "raise" THEN Abort(resource.error)
          ELSE    /\ apis' = PutApi(loc.api_id,
                               [api EXCEPT !.resources = Append(@, node)])
                  /\ loc' = [loc EXCEPT !.resource_id = resource.value.id]
                  /\ pc' = "create_api.put_method"
                  /\ UNCHANGED <<result, cli, grants, nextApi>>
  /\ UNCHANGED <<session, sessionCalls, clock>>

\* A variant of the put calls that logs a failure and goes on to the next
\* step.
Put_Continue(op, operation, args, field, stored, next) ==
  /\ UNCHANGED cmd
  /\ \E fault \in BOOLEAN :
       LET response == IF fault THEN Raise(Fault(operation)) ELSE Ok
       IN
       /\ calls' = Append(calls, Call("apigateway", op, args, response))
       /\ apis' = IF response.kind = "raise" THEN apis
                  ELSE PutApi(loc.api_id,
                         [apis[loc.api_id] EXCEPT ![field] = @ \cup {stored}])
       /\ pc' = next
       /\ UNCHANGED <<result, cli, loc, grants, nextApi>>
  /\ UNCHANGED <<session, sessionCalls, clock>>

\* A put call of create_api: the arguments it passes, the field of the
\* endpoint the control plane stores them in, and the step that follows.
Put(op, operation, args, field, stored, next) ==
  /\ UNCHANGED cmd
  /\ \E fault \in BOOLEAN :
       LET response == IF fault THEN Raise(Fault(operation)) ELSE Ok
       IN
       /\ calls' = Append(calls, Call("apigateway", op, args, response))
       /\ IF response.kind = "raise" THEN Abort(response.error)
          ELSE /\ apis' = PutApi(loc.api_id,
                            [apis[loc.api_id] EXCEPT ![field] = @ \cup {stored}])
               /\ pc' = next
               /\ UNCHANGED <<result, cli, loc, grants, nextApi>>
  /\ UNCHANGED <<session, sessionCalls, clock>>

\* A variant of lines 87-93 that asks for IAM authorization.
create_put_method_Iam ==
  /\ pc = "create_api.put_method"
  /\ LET args == [restApiId |-> loc.api_id, resourceId |-> loc.resource_id,
                  httpMethod |-> "POST", authorizationType |-> "AWS_IAM"]
     IN Put("put_method", "PutMethod", args, "methods",
            [resourceId |-> args.resourceId, httpMethod |-> args.httpMethod,
             authorizationType |-> args.authorizationType],
            "create_api.put_integration")

\* create_api, lines 87-93.
create_put_method ==
  /\ pc = "create_api.put_method"
  /\ LET args == [restApiId |-> loc.api_id, resourceId |-> loc.resource_id,
                  httpMethod |-> "POST", authorizationType |-> "NONE"]
     IN Put("put_method", "PutMethod", args, "methods",
            [resourceId |-> args.resourceId, httpMethod |-> args.httpMethod,
             authorizationType |-> args.authorizationType],
            "create_api.put_integration")

\* A variant of line 98 that takes the field before the account id.
AccountId_Region(lambda_arn) == Split(lambda_arn, ":")[3 + 1]

\* lambda_arn.split(':')[4] (line 98).
AccountId(lambda_arn) == Split(lambda_arn, ":")[4 + 1]

\* A variant of line 106 that takes the region of the function's ARN.
IntegrationUri_ArnRegion(region, lambda_arn) ==
  "arn:aws:apigateway:" \o Split(lambda_arn, ":")[3 + 1]
  \o ":lambda:path/2015-03-31/functions/" \o Render(lambda_arn) \o "/invocations"

\* The integration URI of line 106.
IntegrationUri(region, lambda_arn) ==
  "arn:aws:apigateway:" \o region \o ":lambda:path/2015-03-31/functions/"
  \o Render(lambda_arn) \o "/invocations"

\* create_api, lines 95-107.
create_put_integration ==
  /\ pc = "create_api.put_integration"
  /\ LET lambda_arn == loc.lambda_function.Configuration.FunctionArn
         region == session.region_name
         args == [restApiId |-> loc.api_id, resourceId |-> loc.resource_id,
                  httpMethod |-> "POST", type |-> "AWS",
                  integrationHttpMethod |-> "POST",
                  uri |-> IntegrationUri(region, lambda_arn)]
     IN Put("put_integration", "PutIntegration", args, "integrations",
            [resourceId |-> args.resourceId, httpMethod |-> args.httpMethod,
             type |-> args.type, uri |-> args.uri],
            "create_api.put_method_response")

\* A variant of lines 109-116 that declares the response of a created
\* resource.
create_put_method_response_Created ==
  /\ pc = "create_api.put_method_response"
  /\ LET args == [restApiId |-> loc.api_id, resourceId |-> loc.resource_id,
                  httpMethod |-> "POST", statusCode |-> "201",
                  responseModels |-> [application_json |-> "Empty"]]
     IN Put("put_method_response", "PutMethodResponse", args, "methodResponses",
            [resourceId |-> args.resourceId, httpMethod |-> args.httpMethod,
             statusCode |-> args.statusCode,
             responseModels |-> args.responseModels],
            "create_api.put_integration_response")

\* create_api, lines 109-116.
create_put_method_response ==
  /\ pc = "create_api.put_method_response"
  /\ LET args == [restApiId |-> loc.api_id, resourceId |-> loc.resource_id,
                  httpMethod |-> "POST", statusCode |-> "200",
                  responseModels |-> [application_json |-> "Empty"]]
     IN Put("put_method_response", "PutMethodResponse", args, "methodResponses",
            [resourceId |-> args.resourceId, httpMethod |-> args.httpMethod,
             statusCode |-> args.statusCode,
             responseModels |-> args.responseModels],
            "create_api.put_integration_response")

\* create_api, lines 118-125.
create_put_integration_response ==
  /\ pc = "create_api.put_integration_response"
  /\ LET args == [restApiId |-> loc.api_id, resourceId |-> loc.resource_id,
                  httpMethod |-> "POST", statusCode |-> "200",
                  responseTemplates |-> [application_json |-> ""]]
     IN Put("put_integration_response", "PutIntegrationResponse", args,
            "integrationResponses",
            [resourceId |-> args.resourceId, httpMethod |-> args.httpMethod,
             statusCode |-> args.statusCode,
             responseTemplates |-> args.responseTemplates],
            "create_api.add_permission")

\* The source ARN of line 128.
SourceArn(region, account_id, api_id, lambda_name) ==
  "arn:aws:execute-api:" \o region \o ":" \o account_id \o ":" \o api_id
  \o "/*/*/" \o lambda_name

\* A variant of line 239 that counts whole minutes.
StatementId_Minutes(now) == "apigateway-" \o ToString(now \div 60)

\* The statement id of line 239: int(time.time()).
StatementId(now) == "apigateway-" \o ToString(now)

\* _add_lambda_permission: the arguments of lambda_client.add_permission.
_add_lambda_permission(lambda_name, source_arn, now) ==
  [FunctionName |-> lambda_name, StatementId |-> StatementId(now),
   Action |-> "lambda:InvokeFunction", Principal |-> "apigateway.amazonaws.com",
   SourceArn |-> source_arn]

\* lambda_client.add_permission as the registry answers it: a function's
\* policy holds one statement per statement id.
AddPermission(args, fault) ==
  IF fault THEN Raise(Fault("AddPermission"))
  ELSE IF \E g \in grants : /\ g.FunctionName = args.FunctionName
                            /\ g.StatementId = args.StatementId
  THEN Raise(ClientError("ResourceConflictException", "AddPermission"))
  ELSE Ok

\* A variant of the permission step that deploys whether or not the grant was
\* made.
create_add_permission_Swallow ==
  /\ pc = "create_api.add_permission"
  /\ UNCHANGED cmd
  /\ LET lambda_arn == loc.lambda_function.Configuration.FunctionArn
         source_arn == SourceArn(session.region_name, AccountId(lambda_arn),
                                 loc.api_id, cmd.lambda_name)
         args == _add_lambda_permission(cmd.lambda_name, source_arn, clock)
     IN \E fault \in BOOLEAN :
          LET response == AddPermission(args, fault)
          IN
          /\ calls' = Append(calls, Call("lambda", "add_permission", args, response))
          /\ grants' = IF response.kind = "raise" THEN grants ELSE grants \cup {args}
          /\ pc' = "create_api.create_deployment"
          /\ UNCHANGED <<result, cli, loc, apis, nextApi>>
  /\ UNCHANGED <<session, sessionCalls, clock>>

\* A variant of the permission step that grants nothing when the function
\* already holds a grant.
create_add_permission_IfAbsent ==
  /\ pc = "create_api.add_permission"
  /\ UNCHANGED cmd
  /\ LET lambda_arn == loc.lambda_function.Configuration.FunctionArn
         source_arn == SourceArn(session.region_name, AccountId(lambda_arn),
                                 loc.api_id, cmd.lambda_name)
         args == _add_lambda_permission(cmd.lambda_name, source_arn, clock)
         held == \E g \in grants : g.FunctionName = cmd.lambda_name
     IN \E fault \in BOOLEAN :
          LET response == IF held THEN Ok ELSE AddPermission(args, fault)
          IN
          /\ calls' = Append(calls, Call("lambda", "add_permission", args, response))
          /\ IF response.kind = "raise" THEN Abort(response.error)
             ELSE /\ grants' = IF held THEN grants ELSE grants \cup {args}
                  /\ pc' = "create_api.create_deployment"
                  /\ UNCHANGED <<result, cli, loc, apis, nextApi>>
  /\ UNCHANGED <<session, sessionCalls, clock>>

\* create_api, lines 127-129, and _add_lambda_permission.
create_add_permission ==
  /\ pc = "create_api.add_permission"
  /\ UNCHANGED cmd
  /\ LET lambda_arn == loc.lambda_function.Configuration.FunctionArn
         source_arn == SourceArn(session.region_name, AccountId(lambda_arn),
                                 loc.api_id, cmd.lambda_name)
         args == _add_lambda_permission(cmd.lambda_name, source_arn, clock)
     IN \E fault \in BOOLEAN :
          LET response == AddPermission(args, fault)
          IN
          /\ calls' = Append(calls, Call("lambda", "add_permission", args, response))
          /\ IF response.kind = "raise" THEN Abort(response.error)
             ELSE /\ grants' = grants \cup {args}
                  /\ pc' = "create_api.create_deployment"
                  /\ UNCHANGED <<result, cli, loc, apis, nextApi>>
  /\ UNCHANGED <<session, sessionCalls, clock>>

\* A variant of line 138 that leaves the stage out of the URL.
InvokeUrl_NoStage(api_id, region, lambda_name) ==
  "https://" \o api_id \o ".execute-api." \o region \o ".amazonaws.com/"
  \o lambda_name

\* The invoke URL of line 138.
InvokeUrl(api_id, region, lambda_name) ==
  "https://" \o api_id \o ".execute-api." \o region \o ".amazonaws.com/prod/"
  \o lambda_name

\* A variant of lines 140-148 that reports the stage as the deployment id.
Descriptor_StageAsDeployment(api_id, api_name, lambda_name, lambda_arn, region, deployment) ==
  [api_id |-> api_id, api_name |-> api_name, lambda_name |-> lambda_name,
   lambda_arn |-> Render(lambda_arn),
   invoke_url |-> InvokeUrl(api_id, region, lambda_name),
   deployment_id |-> deployment.stageName, stage |-> "prod"]

\* The descriptor create_api returns (lines 140-148).
Descriptor(api_id, api_name, lambda_name, lambda_arn, region, deployment) ==
  [api_id |-> api_id, api_name |-> api_name, lambda_name |-> lambda_name,
   lambda_arn |-> Render(lambda_arn),
   invoke_url |-> InvokeUrl(api_id, region, lambda_name),
   deployment_id |-> deployment.id, stage |-> "prod"]

\* create_api, lines 131-148.
create_create_deployment ==
  /\ pc = "create_api.create_deployment"
  /\ UNCHANGED cmd
  /\ \E fault \in BOOLEAN :
       LET args == [restApiId |-> loc.api_id, stageName |-> "prod"]
           made == [id |-> DeploymentIdOf(ApiNumber(args.restApiId)),
                    stageName |-> args.stageName]
           deployment == IF fault THEN Raise(Fault("CreateDeployment"))
                         ELSE Return(made)
       IN
       /\ calls' = Append(calls, Call("apigateway", "create_deployment", args,
                                      deployment))
       /\ IF deployment.kind = "raise" THEN Abort(deployment.error)
          ELSE    /\ apis' = PutApi(loc.api_id,
                               [apis[loc.api_id] EXCEPT !.deployments = @ \cup {made}])
                  /\ Finish(Return(Descriptor(loc.api_id, cmd.api_name, cmd.lambda_name,
                               loc.lambda_function.Configuration.FunctionArn,
                               session.region_name, deployment.value)))
                  /\ UNCHANGED <<loc, grants, nextApi>>
  /\ UNCHANGED <<session, sessionCalls, clock>>

\* ------------------------------------------------------------------ delete
\* apigateway_client.delete_rest_api as the control plane answers it.
DeleteRestApi(api_id, fault) ==
  IF fault THEN Raise(Fault("DeleteRestApi"))
  ELSE IF api_id \notin DOMAIN apis
  THEN Raise(ClientError("NotFoundException", "DeleteRestApi"))
  ELSE Ok

\* A variant of line 167 that hands back the control plane's response.
delete_api_return_Response(api_id) == [ok |-> TRUE]

\* The status record of line 167.
delete_api_return(api_id) == [status |-> "deleted", api_id |-> api_id]

\* A variant of delete_api that also revokes the invoke permissions.
delete_delete_rest_api_Cascade ==
  /\ pc = "delete_api.delete_rest_api"
  /\ \E api_id \in ApiIdInputs, fault \in BOOLEAN :
       /\ cmd' = WithOptions([api_id |-> api_id])
       /\ LET response == DeleteRestApi(api_id, fault)
          IN /\ calls' = Append(calls, Call("apigateway", "delete_rest_api",
                                            [restApiId |-> api_id], response))
             /\ IF response.kind = "raise"
                THEN Finish(response) /\ UNCHANGED <<apis, grants>>
                ELSE /\ apis' = [x \in DOMAIN apis \ {api_id} |-> apis[x]]
                     /\ grants' = {}
                     /\ Finish(Return(delete_api_return(api_id)))
  /\ UNCHANGED <<session, sessionCalls, loc, nextApi, clock>>

\* delete_api, lines 164-170.
delete_delete_rest_api ==
  /\ pc = "delete_api.delete_rest_api"
  /\ \E api_id \in ApiIdInputs, fault \in BOOLEAN :
       /\ cmd' = WithOptions([api_id |-> api_id])
       /\ LET response == DeleteRestApi(api_id, fault)
          IN /\ calls' = Append(calls, Call("apigateway", "delete_rest_api",
                                            [restApiId |-> api_id], response))
             /\ IF response.kind = "raise"
                THEN Finish(response) /\ UNCHANGED apis
                ELSE /\ apis' = [x \in DOMAIN apis \ {api_id} |-> apis[x]]
                     /\ Finish(Return(delete_api_return(api_id)))
  /\ UNCHANGED <<session, sessionCalls, loc, grants, nextApi, clock>>

\* ------------------------------------------------------------------ list, get
\* What the control plane reports of an endpoint container.
RestApi(id) ==
  [id |-> id, name |-> apis[id].name, description |-> apis[id].description,
   createdDate |-> Datetime("2023-01-01 00:00:00+00:00")]

RECURSIVE RestApisFrom(_)
RestApisFrom(n) ==
  IF n >= nextApi THEN <<>>
  ELSE (IF ApiIdOf(n) \in DOMAIN apis THEN <<RestApi(ApiIdOf(n))>> ELSE <<>>)
       \o RestApisFrom(n + 1)

\* A variant of list_apis that returns the first item only.
list_get_rest_apis_FirstOnly ==
  /\ pc = "list_apis.get_rest_apis"
  /\ UNCHANGED cmd
  /\ \E fault \in BOOLEAN :
       LET response == IF fault THEN Raise(Fault("GetRestApis"))
                       ELSE Return([items |-> RestApisFrom(1)])
       IN /\ calls' = Append(calls, Call("apigateway", "get_rest_apis",
                                         [none |-> None], response))
          /\ IF response.kind = "raise" THEN Finish(response)
             ELSE Finish(Return(SubSeq(response.value.items, 1,
                                      IF response.value.items = <<>>
                                      THEN 0 ELSE 1)))
  /\ UNCHANGED <<session, sessionCalls, loc, remote, clock>>

\* list_apis, lines 179-185.
list_get_rest_apis ==
  /\ pc = "list_apis.get_rest_apis"
  /\ UNCHANGED cmd
  /\ \E fault \in BOOLEAN :
       LET response == IF fault THEN Raise(Fault("GetRestApis"))
                       ELSE Return([items |-> RestApisFrom(1)])
       IN /\ calls' = Append(calls, Call("apigateway", "get_rest_apis",
                                         [none |-> None], response))
          /\ IF response.kind = "raise" THEN Finish(response)
             ELSE Finish(Return(response.value.items))
  /\ UNCHANGED <<session, sessionCalls, loc, remote, clock>>

\* A variant of get_api that calls once more when the call failed.
get_get_rest_api_Retry ==
  /\ pc = "get_api.get_rest_api"
  /\ \E api_id \in ApiIdInputs, fault \in BOOLEAN, again \in BOOLEAN :
       /\ cmd' = WithOptions([api_id |-> api_id])
       /\ LET answer(f) == IF f THEN Raise(Fault("GetRestApi"))
                           ELSE IF api_id \notin DOMAIN apis
                           THEN Raise(ClientError("NotFoundException", "GetRestApi"))
                           ELSE Return(RestApi(api_id))
              call(f) == Call("apigateway", "get_rest_api", [restApiId |-> api_id],
                              answer(f))
          IN IF answer(fault).kind = "raise"
             THEN /\ calls' = calls \o <<call(fault), call(again)>>
                  /\ Finish(answer(again))
             ELSE /\ calls' = Append(calls, call(fault))
                  /\ Finish(answer(fault))
  /\ UNCHANGED <<session, sessionCalls, loc, remote, clock>>

\* get_api, lines 197-203.
get_get_rest_api ==
  /\ pc = "get_api.get_rest_api"
  /\ \E api_id \in ApiIdInputs, fault \in BOOLEAN :
       /\ cmd' = WithOptions([api_id |-> api_id])
       /\ LET response == IF fault THEN Raise(Fault("GetRestApi"))
                          ELSE IF api_id \notin DOMAIN apis
                          THEN Raise(ClientError("NotFoundException", "GetRestApi"))
                          ELSE Return(RestApi(api_id))
          IN /\ calls' = Append(calls, Call("apigateway", "get_rest_api",
                                            [restApiId |-> api_id], response))
             /\ Finish(response)
  /\ UNCHANGED <<session, sessionCalls, loc, remote, clock>>

\* ------------------------------------------------------------------ test_invoke
\* The loop of _get_resource_id (lines 292-295): the id of the first item
\* whose path is resource_path, or the local ValueError.
RECURSIVE FindResourceId(_, _)
FindResourceId(items, resource_path) ==
  IF items = <<>> THEN Raise(ValueError("Resource not found: " \o resource_path))
  ELSE IF Head(items).path = resource_path THEN Return(Head(items).id)
  ELSE FindResourceId(Tail(items), resource_path)

\* A variant of _get_resource_id whose loop falls through to None instead of
\* raising.
_get_resource_id_NoRaise(resources, resource_path) ==
  IF resources.kind = "raise" THEN resources
  ELSE LET r == FindResourceId(resources.value.items, resource_path)
       IN IF r.kind = "raise" THEN Return(None) ELSE r

\* _get_resource_id, lines 290-298.
_get_resource_id(resources, resource_path) ==
  IF resources.kind = "raise" THEN resources
  ELSE FindResourceId(resources.value.items, resource_path)

\* test_invoke_api, line 270: the argument resourceId is evaluated before
\* test_invoke_method is called.
test_invoke_get_resources ==
  /\ pc = "test_invoke_api.get_resources"
  /\ \E api_id \in ApiIdInputs, resource_path \in PathInputs, fault \in BOOLEAN :
       \E items \in ListingsOf(api_id) :
         LET resources == GetResources(api_id, items, fault)
             r == _get_resource_id(resources, resource_path)
         IN /\ cmd' = WithOptions([api_id |-> api_id, resource_path |-> resource_path])
            /\ calls' = Append(calls, Call("apigateway", "get_resources",
                                           [restApiId |-> api_id], resources))
            /\ IF r.kind = "raise" THEN Finish(r) /\ UNCHANGED loc
               ELSE /\ loc' = [loc EXCEPT !.resource_id = r.value]
                    /\ pc' = "test_invoke_api.test_invoke_method"
                    /\ UNCHANGED <<result, cli>>
  /\ UNCHANGED <<session, sessionCalls, remote, clock>>

\* The options --http-method and --body as click hands them over: the
\* declared default where the option is absent.
ClickDefault(value, default) == IF value = None THEN default ELSE value

\* A variant of line 272 that passes the body as given.
BodyOrDefault_Given(body) == body

\* body or '{}' (line 272).
BodyOrDefault(body) == IF body = None \/ body = "" THEN "{}" ELSE body

\* What the control plane's dry run answers.
TestInvoke(api_id, resource_id, http_method, fault) ==
  IF fault THEN Raise(Fault("TestInvokeMethod"))
  ELSE IF api_id \notin DOMAIN apis
          \/ ~\E m \in apis[api_id].methods :
                m.resourceId = resource_id /\ m.httpMethod = http_method
  THEN Raise(ClientError("NotFoundException", "TestInvokeMethod"))
  ELSE Return([status |-> 200, body |-> "ok"])

\* test_invoke_api, lines 266-277.
test_invoke_test_invoke_method ==
  /\ pc = "test_invoke_api.test_invoke_method"
  /\ \E mb \in InvokeInputs, fault \in BOOLEAN :
       LET http_method == ClickDefault(mb[1], "POST")
           body == ClickDefault(mb[2], "{}")
           args == [restApiId |-> cmd.api_id, resourceId |-> loc.resource_id,
                    httpMethod |-> http_method, body |-> BodyOrDefault(body)]
           response == TestInvoke(cmd.api_id, loc.resource_id, http_method, fault)
       IN /\ cmd' = WithOptions([http_method |-> mb[1], body |-> mb[2]])
          /\ calls' = Append(calls, Call("apigateway", "test_invoke_method", args,
                                         response))
          /\ Finish(response)
  /\ UNCHANGED <<session, sessionCalls, loc, remote, clock>>

\* ------------------------------------------------------------------ profiles
\* The subcommand list-profiles and ProfileManager.list_profiles (lines
\* 26-33): boto3.Session() and its available_profiles.
cli_list_profiles ==
    /\ Begin("list-profiles", None, None)
    /\ sessionCalls' = <<[x \in {} |-> None]>>
    /\ session' = [region_name |-> DefaultRegion]
    /\ Finish(Return(<<"default", "dev">>))

\* The subcommand get-profile-info up to the identity call:
\* get_profile_info calls get_session(profile_name) and takes the sts client
\* (lines 76-78).
cli_get_profile_info ==
  \E profile \in ProfileInputs :
    LET kwargs == get_session(profile, None)
        s == Boto3Session(kwargs)
    IN /\ Begin("get-profile-info", profile, None)
       /\ sessionCalls' = <<kwargs>>
       /\ IF s.kind = "return"
          THEN /\ session' = s.value
               /\ pc' = "get_profile_info.get_caller_identity"
               /\ UNCHANGED <<result, cli>>
          ELSE /\ session' = None
               /\ Finish(s)

\* profile_name or 'default' (line 82).
ProfileOrDefault(profile_name) ==
  IF profile_name = None \/ profile_name = "" THEN "default" ELSE profile_name

\* get_profile_info, lines 79-90.
profile_get_caller_identity ==
  /\ pc = "get_profile_info.get_caller_identity"
  /\ UNCHANGED cmd
  /\ \E fault \in BOOLEAN :
       LET response ==
             IF fault THEN Raise(Fault("GetCallerIdentity"))
             ELSE Return([Account |-> "123456789012", UserId |-> "AIDAEXAMPLE",
                          Arn |-> "arn:aws:iam::123456789012:user/test-user"])
           identity == response.value
       IN /\ calls' = Append(calls, Call("sts", "get_caller_identity",
                                         [none |-> None], response))
          /\ IF response.kind = "raise" THEN Finish(response)
             ELSE Finish(Return([profile |-> ProfileOrDefault(cmd.profile),
                                 account_id |-> identity.Account,
                                 user_id |-> identity.UserId, arn |-> identity.Arn,
                                 region |-> session.region_name]))
  /\ UNCHANGED <<session, sessionCalls, loc, remote, clock>>

\* A direct call of ProfileManager.get_session(profile_name, region_name)
\* (lines 47-63): the session, or the error of boto3.Session re-raised.
lib_get_session ==
  \E profile \in ProfileInputs, region \in RegionInputs :
    LET kwargs == get_session(profile, region)
        s == Boto3Session(kwargs)
    IN /\ Begin("get_session", profile, region)
       /\ sessionCalls' = <<kwargs>>
       /\ session' = IF s.kind = "return" THEN s.value ELSE None
       /\ result' = s
       /\ pc' = "done"
       /\ UNCHANGED cli

\* A direct construction APIGatewayLambdaIntegration(profile_name,
\* region_name) (lines 26-30): the object, or the error of boto3.Session.
lib_create_session ==
  \E profile \in ProfileInputs, region \in RegionInputs :
    LET kwargs == _create_session(profile, region)
        s == Boto3Session(kwargs)
    IN /\ Begin("APIGatewayLambdaIntegration", profile, region)
       /\ sessionCalls' = <<kwargs>>
       /\ session' = IF s.kind = "return" THEN s.value ELSE None
       /\ result' = s
       /\ pc' = "done"
       /\ UNCHANGED cli

\* A second passes between two invocations.
tick ==
  /\ Idle
  /\ clock < MaxClock
  /\ clock' = clock + 1
  /\ UNCHANGED <<pc, cmd, session, sessionCalls, loc, calls, result, cli, remote>>

\* The process is gone: nothing of it is left but what it did to the remote
\* account.
process_end ==
  /\ pc = "done"
  /\ pc' = "idle"
  /\ cmd' = NoCmd
  /\ session' = None
  /\ sessionCalls' = <<>>
  /\ loc' = NoLoc
  /\ calls' = <<>>
  /\ result' = NoResult
  /\ stdout' = <<>>
  /\ stderr' = <<>>
  /\ exitCode' = None
  /\ UNCHANGED <<remote, clock>>

\* ------------------------------------------------------------------ program
Next ==
  \/ cli_integration
  \/ create_get_function
  \/ create_create_rest_api
  \/ create_get_resources
  \/ create_create_resource
  \/ create_put_method
  \/ create_put_integration
  \/ create_put_method_response
  \/ create_put_integration_response
  \/ create_add_permission
  \/ create_create_deployment
  \/ delete_delete_rest_api
  \/ list_get_rest_apis
  \/ get_get_rest_api
  \/ test_invoke_get_resources
  \/ test_invoke_test_invoke_method
  \/ cli_list_profiles
  \/ cli_get_profile_info
  \/ profile_get_caller_identity
  \/ lib_get_session
  \/ lib_create_session
  \/ process_end

Spec == Init /\ [][Next]_vars

\* The program with time passing between invocations.
NextClock == Next \/ tick
SpecClock == Init /\ [][NextClock]_vars

\* Sequences of create-api and delete-api invocations, with time passing
\* between them.
NextProvision ==
  \/ cli_provision
  \/ create_get_function
  \/ create_create_rest_api
  \/ create_get_resources
  \/ create_create_resource
  \/ create_put_method
  \/ create_put_integration
  \/ create_put_method_response
  \/ create_put_integration_response
  \/ create_add_permission
  \/ create_create_deployment
  \/ delete_delete_rest_api
  \/ process_end
  \/ tick
SpecProvision == Init /\ [][NextProvision]_vars

\* ------------------------------------------------------------------ properties
\* Vocabulary of the properties: the invocation that runs, the calls it
\* logged, and what the remote account holds.
Running(name) == cmd.name = name
Done == pc = "done"
Failed(i) == calls[i].response.kind = "raise"
CliCommands ==
  {"create-api", "delete-api", "list-apis", "get-api", "test-invoke",
   "list-profiles", "get-profile-info"}

\* The operations of create, in the order of its steps.
CreateOrder ==
  <<"get_function", "create_rest_api", "get_resources", "create_resource",
    "put_method", "put_integration", "put_method_response",
    "put_integration_response", "add_permission", "create_deployment">>

\* The k-th colon-separated field of an ARN (kept as tokens, no field empty).
ArnField(arn, k) == arn[2 * k - 1]

\* The registry answered the function lookup of the running create with its
\* not-found error.
RegistryReportsNotFound ==
  /\ Running("create-api")
  /\ Len(calls) >= 1
  /\ Failed(1)
  /\ calls[1].response.error.code = "ResourceNotFoundException"

\* C1: when the registry reports the function as not found, create ends with
\* the local ValueError naming that function, and the function lookup is the
\* only call of the run: no gateway call, no permission call.
C1_FunctionNotFound ==
  RegistryReportsNotFound =>
    /\ Done
    /\ result = Raise(ValueError("Lambda function '" \o calls[1].args.FunctionName
                                 \o "' not found"))
    /\ Len(calls) = 1
    /\ calls[1].op = "get_function"

C1_Witness ==
  /\ RegistryReportsNotFound
  /\ Done
  /\ calls[1].args.FunctionName = "ghost-fn"
  /\ result.kind = "raise"
  /\ result.error.msg = "Lambda function 'ghost-fn' not found"

\* What a successful call of create left in the remote account is there.
Present(c) ==
  LET held(field) ==
        /\ c.args.restApiId \in DOMAIN apis
        /\ \E x \in apis[c.args.restApiId][field] :
             /\ x.resourceId = c.args.resourceId
             /\ x.httpMethod = c.args.httpMethod
  IN CASE c.op = "create_rest_api" ->
            /\ c.response.value.id \in DOMAIN apis
            /\ apis[c.response.value.id].name = c.args.name
       [] c.op = "create_resource" ->
            /\ c.args.restApiId \in DOMAIN apis
            /\ \E i \in 1..Len(apis[c.args.restApiId].resources) :
                 apis[c.args.restApiId].resources[i] = c.response.value
       [] c.op = "put_method" -> held("methods")
       [] c.op = "put_integration" -> held("integrations")
       [] c.op = "put_method_response" -> held("methodResponses")
       [] c.op = "put_integration_response" -> held("integrationResponses")
       [] c.op = "add_permission" -> c.args \in grants
       [] OTHER -> TRUE

\* C2: when a call of create after the function lookup fails, create ends
\* there with that error: the failed call is the last call of the run, the
\* calls of the run are the steps up to it in order (so none of a later step,
\* no delete, no other compensating call), every earlier call succeeded and
\* what it created is still in the remote account.
C2_AbortLeavesPartialState ==
  Running("create-api") =>
    \A k \in 2..Len(calls) :
      Failed(k) =>
        /\ Done
        /\ k = Len(calls)
        /\ result = calls[k].response
        /\ \A i \in 1..k : calls[i].op = CreateOrder[i]
        /\ \A i \in 1..(k - 1) : ~Failed(i) /\ Present(calls[i])

C2_Witness ==
  /\ Running("create-api")
  /\ Done
  /\ Len(calls) = 10
  /\ Failed(10)
  /\ calls[2].response.value.id \in DOMAIN apis
  /\ grants # {}

\* A create that returned its descriptor.
CreateSucceeded == Running("create-api") /\ Done /\ result.kind = "return"

\* C3: the descriptor of a successful create has stage "prod" and the
\* invoke URL https://<id>.execute-api.<region>.amazonaws.com/prod/<name>,
\* with the id the gateway returned for the new container, the region of the
\* session and the function name given.
C3_InvokeUrl ==
  CreateSucceeded =>
    /\ result.value.stage = "prod"
    /\ result.value.api_id = calls[2].response.value.id
    /\ result.value.invoke_url =
         "https://" \o calls[2].response.value.id \o ".execute-api."
         \o session.region_name \o ".amazonaws.com/prod/"
         \o calls[1].args.FunctionName

C3_Witness ==
  /\ CreateSucceeded
  /\ cmd.region = "eu-west-1"
  /\ result.value.invoke_url =
       "https://api2.execute-api.eu-west-1.amazonaws.com/prod/demo-fn"

\* The positions of the permission grants in the call log.
PermissionCalls == {i \in 1..Len(calls) : calls[i].op = "add_permission"}

\* C4: a create run grants the invoke permission at most once, and exactly
\* once when it has passed the permission step: on the target function, to
\* the principal apigateway.amazonaws.com, for the action
\* lambda:InvokeFunction, with the source ARN
\* arn:aws:execute-api:<region>:<account>:<id>/*/*/<name>, the account being
\* the fifth colon-separated field of the ARN the registry returned and the
\* id that of the container made in this run.
C4_PermissionGrant ==
  Running("create-api") =>
    /\ Cardinality(PermissionCalls) <= 1
    /\ Len(calls) >= 9 =>
         /\ PermissionCalls = {9}
         /\ LET granted == calls[9].args
                arn == calls[1].response.value.Configuration.FunctionArn
            IN /\ granted.FunctionName = calls[1].args.FunctionName
               /\ granted.Principal = "apigateway.amazonaws.com"
               /\ granted.Action = "lambda:InvokeFunction"
               /\ granted.SourceArn =
                    "arn:aws:execute-api:" \o session.region_name \o ":"
                    \o ArnField(arn, 5) \o ":" \o calls[2].response.value.id
                    \o "/*/*/" \o calls[1].args.FunctionName

C4_Witness ==
  /\ CreateSucceeded
  /\ PermissionCalls = {9}
  /\ calls[9].args.SourceArn =
       "arn:aws:execute-api:us-east-1:123456789012:api1/*/*/demo-fn"
  /\ calls[9].args \in grants

\* No item of a listing has the path.
NoItemWithPath(items, path) == \A i \in 1..Len(items) : items[i].path # path

\* No node of the endpoint has the path (an endpoint that does not exist has
\* no node).
NoNodeWithPath(api_id, path) ==
  api_id \in DOMAIN apis => NoItemWithPath(apis[api_id].resources, path)

\* The local error of the path lookup.
ResourceNotFound(path) == Raise(ValueError("Resource not found: " \o path))

\* C5 as the specification states it: when no node of the endpoint has the
\* given path, test_invoke ends with the local "Resource not found: <path>"
\* error and never calls the gateway's test-invoke operation.
C5_Stated ==
  (Running("test-invoke") /\ Len(calls) >= 1
     /\ NoNodeWithPath(cmd.api_id, cmd.resource_path)) =>
    /\ Done
    /\ result = ResourceNotFound(cmd.resource_path)
    /\ Len(calls) = 1

\* C5, amended: when the node listing the gateway returned has no item with
\* the given path, test_invoke ends with the local "Resource not found:
\* <path>" error; when the listing call itself failed, test_invoke ends with
\* that error of the control plane; either way the listing is the only call
\* of the run, the test-invoke operation is never called.
C5_PathLookup ==
  (Running("test-invoke") /\ Len(calls) >= 1) =>
    /\ Failed(1) =>
         /\ Done
         /\ result = calls[1].response
         /\ Len(calls) = 1
    /\ (~Failed(1)
          /\ NoItemWithPath(calls[1].response.value.items, cmd.resource_path)) =>
         /\ Done
         /\ result = ResourceNotFound(cmd.resource_path)
         /\ Len(calls) = 1
    /\ calls[1].op = "get_resources"

C5_Witness ==
  /\ Running("test-invoke")
  /\ Done
  /\ Len(calls) = 1
  /\ ~Failed(1)
  /\ calls[1].response.value.items # <<>>
  /\ cmd.resource_path = "/nope"
  /\ result = ResourceNotFound("/nope")

\* C6: delete issues exactly one call, the deletion of the given id; when it
\* succeeds delete returns exactly the record {status: "deleted", api_id: id},
\* when it fails delete raises that error and returns no record.
C6_Delete ==
  (Running("delete-api") /\ Len(calls) >= 1) =>
    /\ Done
    /\ Len(calls) = 1
    /\ calls[1].op = "delete_rest_api"
    /\ calls[1].args = [restApiId |-> cmd.api_id]
    /\ ~Failed(1) => result = Return([status |-> "deleted", api_id |-> cmd.api_id])
    /\ Failed(1) => result = calls[1].response

C6_Witness ==
  /\ Running("delete-api")
  /\ Done
  /\ Len(calls) = 1
  /\ ~Failed(1)
  /\ cmd.api_id = "api1"
  /\ "api1" \notin DOMAIN apis
  /\ result.kind = "return"
  /\ result.value.status = "deleted"

\* A run of the session resolver ProfileManager.get_session: called
\* directly, or by get_profile_info.
Resolving == (Running("get_session") \/ Running("get-profile-info"))

\* C7 as the specification states it: the resolver passes exactly the
\* requested profile and region to the session, except that for "latest" and
\* for an absent profile it passes the region only.
C7_Stated ==
  Resolving =>
    sessionCalls =
      <<IF cmd.profile \in {"latest", None}
        THEN [region_name |-> cmd.region]
        ELSE [profile_name |-> cmd.profile, region_name |-> cmd.region]>>

\* C7, amended: the resolver passes exactly the requested profile and region
\* to the session, except that for "latest", for an absent profile and for
\* the empty profile name it passes the region only.
C7_ResolverArguments ==
  Resolving =>
    sessionCalls =
      <<IF cmd.profile \in {"latest", None, ""}
        THEN [region_name |-> cmd.region]
        ELSE [profile_name |-> cmd.profile, region_name |-> cmd.region]>>

C7_Witness ==
  /\ Running("get_session")
  /\ cmd.profile = "latest"
  /\ cmd.region = "eu-west-1"
  /\ sessionCalls = <<[region_name |-> "eu-west-1"]>>
  /\ result = Return([region_name |-> "eu-west-1"])

\* An invocation that resolved a session for the profile it was given.
Resolved == sessionCalls # <<>> /\ ~Running("list-profiles")

\* The resolution failed before any call went out.
ProfileNotFoundLocally ==
  /\ Done
  /\ result = Raise(ProfileNotFound(cmd.profile))
  /\ session = None
  /\ calls = <<>>

\* C8 as the specification states it: resolving a session with a non-empty
\* profile name that is not registered fails with ProfileNotFound, and no
\* call goes out.
C8_Stated ==
  (Resolved /\ cmd.profile \notin {None, ""} \cup RegisteredProfiles) =>
    ProfileNotFoundLocally

\* C8, amended: resolving a session with a non-empty profile name other than
\* "latest" that is not registered fails with ProfileNotFound, and no call
\* goes out.
C8_UnknownProfile ==
  (Resolved /\ cmd.profile \notin {None, "", "latest"} \cup RegisteredProfiles) =>
    ProfileNotFoundLocally

C8_Witness ==
  /\ Running("get_session")
  /\ cmd.profile = "ghost"
  /\ ProfileNotFoundLocally
  /\ result.error.type = "ProfileNotFound"

\* C9 as the specification states it: a create that fails ends either with
\* the local function-not-found error of the function lookup, or with the
\* error its last call got from the control plane, unmodified.
C9_Stated ==
  (Running("create-api") /\ Done /\ result.kind = "raise" /\ calls # <<>>) =>
    \/ /\ RegistryReportsNotFound
       /\ result.error.type = "ValueError"
    \/ result = calls[Len(calls)].response

\* C9: the failing run: the listing fetched right after the container was
\* made holds no item with path "/", and create ends with Python's
\* IndexError, which no call returned.
C9_Witness ==
  /\ Running("create-api")
  /\ Done
  /\ Len(calls) = 3
  /\ ~Failed(3)
  /\ result = Raise(IndexError)
  /\ calls[2].response.value.id \in DOMAIN apis

\* C10 as the specification states it: a subcommand that ended has exit code
\* 0 when its operation returned and 1 when anything raised, the failure to
\* construct the session included; in the second case the error stream holds
\* the one line "Error: <message>" and the output stream holds nothing.
C10_Stated ==
  (cmd.name \in CliCommands /\ Done) =>
    /\ result.kind = "return" => exitCode = 0 /\ stderr = <<>>
    /\ result.kind = "raise" =>
         /\ exitCode = 1
         /\ stderr = <<"Error: " \o result.error.msg>>
         /\ stdout = <<>>

\* C10: the failing run: list-apis --output json on an account that holds an
\* endpoint; the operation returned its list and the subcommand ends with
\* exit code 1.
C10_Witness ==
  /\ Running("list-apis")
  /\ Done
  /\ result.kind = "return"
  /\ result.value # <<>>
  /\ exitCode = 1
  /\ stdout = <<>>
  /\ stderr = <<"Error: Object of type datetime is not JSON serializable">>

\* C11: no step revokes an invoke permission: the set of grants only grows,
\* whatever sequence of create and delete invocations runs, so a grant
\* outlives the endpoint it was made for.
C11_GrantsOnlyGrow == [][grants \subseteq grants']_vars

\* A delete succeeded, no endpoint is left, and a grant is still there.
C11_Witness ==
  /\ Running("delete-api")
  /\ Done
  /\ Len(calls) = 1
  /\ ~Failed(1)
  /\ DOMAIN apis = {}
  /\ grants # {}

\* The first item of a listing whose path is "/" has the id.
FirstRootIs(items, id) ==
  \E i \in 1..Len(items) :
    /\ items[i].path = "/"
    /\ items[i].id = id
    /\ \A j \in 1..(i - 1) : items[j].path # "/"

\* C12: the calls of a run of create are, in this order, get function,
\* create endpoint container, list nodes, create child node, put method, put
\* integration, put method response, put integration response, add
\* permission, create deployment; a call is in the log only when every call
\* before it succeeded; the child node is named after the function and made
\* under the first node of the listing whose path is "/".
C12_CallOrder ==
  Running("create-api") =>
    /\ Len(calls) <= Len(CreateOrder)
    /\ \A i \in 1..Len(calls) :
         /\ calls[i].op = CreateOrder[i]
         /\ i < Len(calls) => ~Failed(i)
    /\ Len(calls) >= 4 =>
         /\ calls[4].args.pathPart = calls[1].args.FunctionName
         /\ calls[4].args.restApiId = calls[2].response.value.id
         /\ FirstRootIs(calls[3].response.value.items, calls[4].args.parentId)

C12_Witness ==
  /\ CreateSucceeded
  /\ Len(calls) = 10
  /\ \A i \in 1..10 : ~Failed(i) /\ calls[i].op = CreateOrder[i]
  /\ calls[4].args = [restApiId |-> "api1", parentId |-> "root1",
                      pathPart |-> "demo-fn"]

\* The regions a session of the model can be bound to.
SessionRegions == {DefaultRegion} \cup (RegionInputs \ {None})

\* The account holds an invoke permission for the endpoint.
GrantedFor(id) ==
  \E g \in grants, region \in SessionRegions :
    /\ g.FunctionName \in DOMAIN FunctionArns
    /\ g.SourceArn = "arn:aws:execute-api:" \o region \o ":"
                     \o ArnField(FunctionArns[g.FunctionName], 5) \o ":" \o id
                     \o "/*/*/" \o g.FunctionName

\* The endpoint holds all that create makes before it deploys.
Wired(id) ==
  LET a == apis[id]
  IN \E i \in 1..Len(a.resources) :
       LET node == a.resources[i]
       IN /\ node.path # "/"
          /\ \E m \in a.methods : m.resourceId = node.id /\ m.httpMethod = "POST"
          /\ \E x \in a.integrations : x.resourceId = node.id /\ x.httpMethod = "POST"
          /\ \E x \in a.methodResponses : x.resourceId = node.id
          /\ \E x \in a.integrationResponses : x.resourceId = node.id

\* C13: an endpoint has a deployment only if it has its child node, POST
\* method, integration, method response and integration response and the
\* account holds the invoke permission made for it; every deployment is to
\* stage "prod"; the endpoint of a create that failed has no deployment.
C13_DeployedOnlyWhenWired ==
  /\ \A id \in DOMAIN apis :
       apis[id].deployments # {} =>
         /\ Wired(id)
         /\ GrantedFor(id)
         /\ \A d \in apis[id].deployments : d.stageName = "prod"
  /\ (Running("create-api") /\ Done /\ result.kind = "raise"
        /\ Len(calls) >= 2 /\ ~Failed(2)) =>
       apis[calls[2].response.value.id].deployments = {}

\* One endpoint is deployed; the create of the other failed at the
\* permission step and left it without a deployment.
C13_Witness ==
  /\ Running("create-api")
  /\ Done
  /\ Len(calls) = 9
  /\ Failed(9)
  /\ DOMAIN apis = {"api1", "api2"}
  /\ apis["api1"].deployments # {}
  /\ apis["api2"].deployments = {}
  /\ apis["api2"].integrationResponses # {}

\* The step of create that got a new endpoint container from the gateway.
ContainerMade ==
  /\ pc = "create_api.create_rest_api"
  /\ pc' = "create_api.get_resources"

\* C14: a run of create issues no list or get call for endpoints; the
\* container it gets is a new one, under an id the account did not hold,
\* whatever the names of the endpoints the account holds, and they are left
\* as they were; the descriptor of a successful create carries that id.
C14_NoExistenceCheck ==
  /\ [](Running("create-api") =>
          /\ \A i \in 1..Len(calls) :
               calls[i].op \notin {"get_rest_apis", "get_rest_api"}
          /\ CreateSucceeded => result.value.api_id = calls[2].response.value.id)
  /\ [][ContainerMade =>
          /\ loc'.api_id \notin DOMAIN apis
          /\ DOMAIN apis' = DOMAIN apis \cup {loc'.api_id}
          /\ apis'[loc'.api_id].name = cmd.api_name
          /\ \A x \in DOMAIN apis : apis'[x] = apis[x]]_vars

\* Two creates with the same endpoint name succeeded: both endpoints are
\* there, and the descriptors carry different ids.
C14_Witness ==
  /\ CreateSucceeded
  /\ result.value.api_id = "api2"
  /\ DOMAIN apis = {"api1", "api2"}
  /\ apis["api1"].name = result.value.api_name
  /\ apis["api2"].name = result.value.api_name
  /\ apis["api1"].deployments # {}

\* The ids of all nodes, and all deployments, the account holds.
AllNodeIds ==
  UNION {{apis[x].resources[i].id : i \in 1..Len(apis[x].resources)} :
           x \in DOMAIN apis}
AllDeployments == UNION {apis[x].deployments : x \in DOMAIN apis}

\* What a call of create that succeeded in this step made is new, and was
\* made in the container of this run.
CreateStepMakesNew ==
  LET n == Len(calls')
      c == calls'[n]
      made == c.response.value
      E == calls'[2].response.value.id
  IN (cmd'.name = "create-api" /\ n = Len(calls) + 1 /\ c.response.kind = "return") =>
       CASE c.op = "create_rest_api" ->
              /\ made.id \notin DOMAIN apis
              /\ DOMAIN apis' = DOMAIN apis \cup {made.id}
         [] c.op = "create_resource" ->
              /\ c.args.restApiId = E
              /\ made.id \notin AllNodeIds
              /\ apis'[E].resources = Append(apis[E].resources, made)
         [] c.op = "add_permission" ->
              /\ c.args \notin grants
              /\ grants' = grants \cup {c.args}
         [] c.op = "create_deployment" ->
              /\ c.args.restApiId = E
              /\ made \notin AllDeployments
              /\ apis'[E].deployments = apis[E].deployments \cup {made}
         [] c.op \in {"put_method", "put_integration", "put_method_response",
                      "put_integration_response"} ->
              c.args.restApiId = E
         [] OTHER -> TRUE

\* C15: create is not idempotent: every successful run makes one endpoint
\* container, one child node, one deployment and one permission grant that
\* the account did not hold before, and works on no container but its own.
C15_NotIdempotent == [][CreateStepMakesNew]_vars

\* Two creates with identical arguments succeeded: two containers, two child
\* nodes, two deployments, two grants.
C15_Witness ==
  /\ CreateSucceeded
  /\ DOMAIN apis = {"api1", "api2"}
  /\ \A x \in DOMAIN apis :
       /\ Len(apis[x].resources) = 2
       /\ Cardinality(apis[x].deployments) = 1
       /\ apis[x].name = "demo-api"
  /\ Cardinality(AllNodeIds) = 4
  /\ Cardinality(AllDeployments) = 2
  /\ {g.SourceArn : g \in grants} =
       {"arn:aws:execute-api:us-east-1:123456789012:api1/*/*/demo-fn",
        "arn:aws:execute-api:us-east-1:123456789012:api2/*/*/demo-fn"}
  /\ Cardinality(grants) = 2

\* A run of list or get.
Reading == cmd.name \in {"list-apis", "get-api"}

\* C16: list and get issue one call each, the read get_rest_apis, resp.
\* get_rest_api with the given id, and return what it returned (list: the
\* items of that one response); no step of a list or get run changes the
\* endpoints, nodes, deployments or grants of the account.
C16_ReadsAreSafe ==
  /\ [](/\ (Running("list-apis") /\ Len(calls) >= 1) =>
             /\ Done
             /\ Len(calls) = 1
             /\ calls[1].op = "get_rest_apis"
             /\ ~Failed(1) => result = Return(calls[1].response.value.items)
             /\ Failed(1) => result = calls[1].response
        /\ (Running("get-api") /\ Len(calls) >= 1) =>
             /\ Done
             /\ Len(calls) = 1
             /\ calls[1].op = "get_rest_api"
             /\ calls[1].args = [restApiId |-> cmd.api_id]
             /\ result = calls[1].response)
  /\ [][(Reading \/ Reading') => UNCHANGED remote]_vars

C16_Witness ==
  /\ Running("list-apis")
  /\ Done
  /\ Len(calls) = 1
  /\ ~Failed(1)
  /\ Len(result.value) = 2
  /\ result.value[2].id = "api2"

\* The id of the first item of a listing whose path is the given one.
FirstMatchIs(items, path, id) ==
  \E i \in 1..Len(items) :
    /\ items[i].path = path
    /\ items[i].id = id
    /\ \A j \in 1..(i - 1) : items[j].path # path

\* The run of test_invoke ended after one listing and one test-invoke call,
\* made for the first item of the listing with the given path, with the
\* given method (POST when none is given) and the body in sent, and returned
\* what that call came to.
InvokedWith(sent) ==
  /\ Len(calls) = 2
  /\ calls[1].op = "get_resources"
  /\ calls[2].op = "test_invoke_method"
  /\ calls[2].args.restApiId = cmd.api_id
  /\ FirstMatchIs(calls[1].response.value.items, cmd.resource_path,
                  calls[2].args.resourceId)
  /\ calls[2].args.httpMethod =
       (IF cmd.http_method = None THEN "POST" ELSE cmd.http_method)
  /\ calls[2].args.body = sent
  /\ result = calls[2].response

\* C17 as the specification states it, for the runs whose listing succeeded
\* and has an item with the given path: test_invoke ends after one listing
\* and one test-invoke call for the first such item, with the given method
\* (POST when not given) and the given body ("{}" when not given), and
\* returns the result of that call.
C17_Stated ==
  (Running("test-invoke") /\ Done /\ Len(calls) >= 1 /\ ~Failed(1)
     /\ ~NoItemWithPath(calls[1].response.value.items, cmd.resource_path)) =>
    InvokedWith(IF cmd.body = None THEN "{}" ELSE cmd.body)

\* C17, amended: when the listing the gateway returned has an item with the
\* given path, test_invoke goes on to the test-invoke call and ends after
\* that one listing and one test-invoke call, made for the first such item,
\* with the given method (POST when not given) and the given body ("{}" when
\* not given or empty), and returns what that call came to.
C17_TestInvoke ==
  (Running("test-invoke") /\ Len(calls) >= 1 /\ ~Failed(1)
     /\ ~NoItemWithPath(calls[1].response.value.items, cmd.resource_path)) =>
    /\ pc \in {"test_invoke_api.test_invoke_method", "done"}
    /\ FirstMatchIs(calls[1].response.value.items, cmd.resource_path,
                    loc.resource_id)
    /\ Done => InvokedWith(IF cmd.body \in {None, ""} THEN "{}" ELSE cmd.body)

C17_Witness ==
  /\ Running("test-invoke")
  /\ Done
  /\ Len(calls) = 2
  /\ cmd.resource_path = "/demo-fn"
  /\ cmd.http_method = None
  /\ cmd.body = None
  /\ calls[2].args = [restApiId |-> "api1", resourceId |-> "res1",
                      httpMethod |-> "POST", body |-> "{}"]
  /\ result = Return([status |-> 200, body |-> "ok"])

\* C18: no operation retries: in a run of create, delete, list, get or
\* test_invoke no operation of the control plane is called twice, and a call
\* that failed is the last call of the run.
C18_NoRetry ==
  cmd.name \in DOMAIN FirstStep =>
    /\ \A i, j \in 1..Len(calls) : calls[i].op = calls[j].op => i = j
    /\ \A i \in 1..Len(calls) : Failed(i) => (i = Len(calls) /\ Done)

\* A throttled read, which a retry could have saved, ended the run.
C18_Witness ==
  /\ Running("get-api")
  /\ Done
  /\ Len(calls) = 1
  /\ Failed(1)
  /\ calls[1].response.error.code = "TooManyRequestsException"
  /\ cmd.api_id \in DOMAIN apis
  /\ result = calls[1].response

\* The integration URI of the specification's template,
\* <gateway-invoke-prefix>/<region>/lambda:path/2015-03-31/functions/<function-arn>/invocations,
\* for the prefix the code uses.
TemplateUri(region, arn) ==
  "arn:aws:apigateway" \o "/" \o region \o "/"
  \o "lambda:path/2015-03-31/functions/" \o arn \o "/invocations"

\* The integration call of the run is made for the child node of the run,
\* with method POST, and carries the URI.
IntegrationIs(uri) ==
  /\ calls[6].op = "put_integration"
  /\ calls[6].args.restApiId = calls[2].response.value.id
  /\ calls[6].args.resourceId = calls[4].response.value.id
  /\ calls[6].args.httpMethod = "POST"
  /\ calls[6].args.uri = uri

\* C19 as the specification states it: the URI of the integration is the
\* template above, filled with the session's region and the ARN the registry
\* returned.
C19_Stated ==
  (Running("create-api") /\ Len(calls) >= 6) =>
    IntegrationIs(TemplateUri(session.region_name,
       Render(calls[1].response.value.Configuration.FunctionArn)))

\* C19, amended: the integration of a run of create is attached to the child
\* node of the run with method POST, and its URI is
\* arn:aws:apigateway:<region>:lambda:path/2015-03-31/functions/<function-arn>/invocations
\* with the session's region and the ARN the registry returned in the run.
C19_IntegrationUri ==
  (Running("create-api") /\ Len(calls) >= 6) =>
    /\ IntegrationIs("arn:aws:apigateway:" \o session.region_name
         \o ":lambda:path/2015-03-31/functions/"
         \o Render(calls[1].response.value.Configuration.FunctionArn)
         \o "/invocations")
    /\ calls[6].args.type = "AWS"
    /\ calls[6].args.integrationHttpMethod = "POST"

C19_Witness ==
  /\ Running("create-api")
  /\ Len(calls) >= 6
  /\ ~Failed(6)
  /\ session.region_name = "eu-west-1"
  /\ calls[6].args.uri =
       "arn:aws:apigateway:eu-west-1:lambda:path/2015-03-31/functions/arn:aws:lambda:us-east-1:123456789012:function:demo-fn/invocations"
  /\ \E x \in apis[calls[2].response.value.id].integrations :
       x.uri = calls[6].args.uri

\* The positions of the put-method calls in the call log.
PutMethodCalls == {i \in 1..Len(calls) : calls[i].op = "put_method"}

\* C20: a run of create makes at most one put-method call, and exactly one
\* when it succeeds: on the child node of the run, for POST with
\* authorization NONE; the endpoint of the run holds no other method.
C20_PostOnly ==
  Running("create-api") =>
    /\ Cardinality(PutMethodCalls) <= 1
    /\ CreateSucceeded => PutMethodCalls = {5}
    /\ \A i \in PutMethodCalls :
         /\ calls[i].args =
              [restApiId |-> calls[2].response.value.id,
               resourceId |-> calls[4].response.value.id,
               httpMethod |-> "POST", authorizationType |-> "NONE"]
         /\ apis[calls[2].response.value.id].methods \subseteq
              {[resourceId |-> calls[4].response.value.id,
                httpMethod |-> "POST", authorizationType |-> "NONE"]}

C20_Witness ==
  /\ CreateSucceeded
  /\ PutMethodCalls = {5}
  /\ cmd.region = "eu-west-1"
  /\ apis[result.value.api_id].methods =
       {[resourceId |-> calls[4].response.value.id, httpMethod |-> "POST",
         authorizationType |-> "NONE"]}

\* The method responses and the integration responses of all endpoints.
AllMethodResponses == UNION {apis[id].methodResponses : id \in DOMAIN apis}
AllIntegrationResponses == UNION {apis[id].integrationResponses : id \in DOMAIN apis}

\* The response calls of the running create, by operation.
CallsOf(op) == {i \in 1..Len(calls) : calls[i].op = op}

\* C21: a run of create makes at most one put-method-response and one
\* put-integration-response call, both on the child node of the run for POST
\* with status code "200", the first with the model "Empty", the second with
\* the empty template; after a successful create the endpoint holds exactly
\* these two responses; no endpoint ever holds a response with another
\* status code.
C21_Responses200 ==
  /\ \A x \in AllMethodResponses \cup AllIntegrationResponses :
       x.statusCode = "200"
  /\ \A x \in AllIntegrationResponses :
       x.responseTemplates = [application_json |-> ""]
  /\ Running("create-api") =>
       /\ CallsOf("put_method_response") \subseteq {7}
       /\ CallsOf("put_integration_response") \subseteq {8}
       /\ \A i \in CallsOf("put_method_response") :
            calls[i].args =
              [restApiId |-> calls[2].response.value.id,
               resourceId |-> calls[4].response.value.id,
               httpMethod |-> "POST", statusCode |-> "200",
               responseModels |-> [application_json |-> "Empty"]]
       /\ \A i \in CallsOf("put_integration_response") :
            calls[i].args =
              [restApiId |-> calls[2].response.value.id,
               resourceId |-> calls[4].response.value.id,
               httpMethod |-> "POST", statusCode |-> "200",
               responseTemplates |-> [application_json |-> ""]]
  /\ CreateSucceeded =>
       LET a == apis[result.value.api_id]
           node == calls[4].response.value.id
       IN /\ a.methodResponses =
               {[resourceId |-> node, httpMethod |-> "POST", statusCode |-> "200",
                 responseModels |-> [application_json |-> "Empty"]]}
          /\ a.integrationResponses =
               {[resourceId |-> node, httpMethod |-> "POST", statusCode |-> "200",
                 responseTemplates |-> [application_json |-> ""]]}

C21_Witness ==
  /\ CreateSucceeded
  /\ Cardinality(apis[result.value.api_id].methodResponses) = 1
  /\ Cardinality(apis[result.value.api_id].integrationResponses) = 1
  /\ CallsOf("put_method_response") = {7}
  /\ CallsOf("put_integration_response") = {8}

\* C22: when --region is given, a run of create puts that region, and not the
\* default of the credential chain or the region of the function's ARN, in
\* the integration URI, in the source ARN of the grant and in the invoke URL
\* of the descriptor.
C22_SuppliedRegion ==
  (Running("create-api") /\ cmd.region # None) =>
    /\ \A i \in CallsOf("put_integration") :
         calls[i].args.uri =
           "arn:aws:apigateway:" \o cmd.region
           \o ":lambda:path/2015-03-31/functions/"
           \o Render(calls[1].response.value.Configuration.FunctionArn)
           \o "/invocations"
    /\ \A i \in CallsOf("add_permission") :
         calls[i].args.SourceArn =
           "arn:aws:execute-api:" \o cmd.region \o ":"
           \o ArnField(calls[1].response.value.Configuration.FunctionArn, 5)
           \o ":" \o calls[2].response.value.id \o "/*/*/" \o cmd.lambda_name
    /\ CreateSucceeded =>
         result.value.invoke_url =
           "https://" \o calls[2].response.value.id \o ".execute-api."
           \o cmd.region \o ".amazonaws.com/prod/" \o cmd.lambda_name

\* A create with --region eu-west-1 for a function of us-east-1, in an
\* environment whose default region is us-east-1, succeeded.
C22_Witness ==
  /\ CreateSucceeded
  /\ cmd.region = "eu-west-1"
  /\ DefaultRegion = "us-east-1"
  /\ ArnField(calls[1].response.value.Configuration.FunctionArn, 4) = "us-east-1"
  /\ result.value.invoke_url =
       "https://api1.execute-api.eu-west-1.amazonaws.com/prod/demo-fn"
  /\ calls[9].args.SourceArn =
       "arn:aws:execute-api:eu-west-1:123456789012:api1/*/*/demo-fn"
  /\ calls[6].args.uri =
       "arn:aws:apigateway:eu-west-1:lambda:path/2015-03-31/functions/arn:aws:lambda:us-east-1:123456789012:function:demo-fn/invocations"

\* C23: the descriptor of a successful create carries the endpoint name and
\* the function name given, the id the create_rest_api call of the run
\* returned, the ARN the registry returned in the run and the id the
\* create_deployment call of the run returned.
C23_DescriptorEcho ==
  CreateSucceeded =>
    /\ Len(calls) = 10
    /\ result.value.api_name = cmd.api_name
    /\ result.value.lambda_name = cmd.lambda_name
    /\ calls[2].op = "create_rest_api"
    /\ calls[2].args.name = cmd.api_name
    /\ result.value.api_id = calls[2].response.value.id
    /\ calls[1].op = "get_function"
    /\ calls[1].args.FunctionName = cmd.lambda_name
    /\ result.value.lambda_arn =
         Render(calls[1].response.value.Configuration.FunctionArn)
    /\ calls[10].op = "create_deployment"
    /\ result.value.deployment_id = calls[10].response.value.id

\* The second create of a behaviour returned its descriptor.
C23_Witness ==
  /\ CreateSucceeded
  /\ result.value.api_id = "api2"
  /\ result.value.deployment_id = "dep2"
  /\ result.value.api_name = "demo-api"
  /\ result.value.lambda_name = "demo-fn"
  /\ result.value.lambda_arn = "arn:aws:lambda:us-east-1:123456789012:function:demo-fn"

\* The listing fetched right after the container of the running create was
\* made came back without an item of path "/".
RootMissing ==
  /\ Running("create-api")
  /\ Len(calls) >= 3
  /\ ~Failed(3)
  /\ NoItemWithPath(calls[3].response.value.items, "/")

\* C24: when the listing fetched right after the container was made has no
\* item of path "/", create is over after that call, its third, with an
\* error that is not the control plane's; the container made by the second
\* call is still in the account, with nothing added to it, no grant and no
\* deployment made for it.
C24_RootLookup ==
  RootMissing =>
    /\ Done
    /\ Len(calls) = 3
    /\ calls[2].op = "create_rest_api" /\ ~Failed(2)
    /\ calls[3].op = "get_resources"
    /\ result.kind = "raise"
    /\ result.error.type = "IndexError"
    /\ result.error.type # "ClientError"
    /\ exitCode = 1
    /\ LET id == calls[2].response.value.id
       IN /\ id \in DOMAIN apis
          /\ apis[id] = NewApi(ApiNumber(id), cmd.api_name, cmd.description)
          /\ ~GrantedFor(id)

C24_Witness ==
  /\ RootMissing
  /\ calls[3].response.value.items = <<>>
  /\ calls[2].response.value.id = "api2"
  /\ Len(apis["api2"].resources) = 1
  /\ "api1" \in DOMAIN apis

\* The registry answered the function lookup of the running create with an
\* error other than its not-found error.
RegistryFailedOtherwise ==
  /\ Running("create-api")
  /\ Len(calls) >= 1
  /\ Failed(1)
  /\ calls[1].response.error.type = "ClientError"
  /\ calls[1].response.error.code # "ResourceNotFoundException"

\* C25: when the function lookup of create fails with a control-plane error
\* other than not-found, create ends with that very error, not with the
\* local function-not-found error, and the lookup is the only call of the
\* run: the step that fails leaves the remote account as it was.
C25_LookupErrorPropagates ==
  /\ [](RegistryFailedOtherwise =>
         /\ Done
         /\ Len(calls) = 1
         /\ calls[1].op = "get_function"
         /\ result = calls[1].response
         /\ result.error.type # "ValueError"
         /\ stderr = <<"Error: " \o calls[1].response.error.msg>>
         /\ exitCode = 1)
  /\ [][RegistryFailedOtherwise' => UNCHANGED remote]_vars

\* The lookup of the second create of a behaviour was throttled.
C25_Witness ==
  /\ RegistryFailedOtherwise
  /\ calls[1].response.error.code = "TooManyRequestsException"
  /\ Done
  /\ DOMAIN apis = {"api1"}
  /\ nextApi = 2

\* The step appends a grant call to the call log.
GrantIssued ==
  /\ Len(calls') = Len(calls) + 1
  /\ calls'[Len(calls')].op = "add_permission"

\* C26: every grant call carries the statement id "apigateway-" followed by
\* the clock's whole seconds at the time of the call, whatever the endpoint
\* and the function; so the ids of two seconds are equal exactly when the
\* seconds are, and a grant call made in the second of an earlier grant
\* carries the id of that grant.
C26_StatementId ==
  /\ [][GrantIssued =>
         calls'[Len(calls')].args.StatementId = "apigateway-" \o ToString(clock)]_vars
  /\ [](\A t1, t2 \in 0..MaxClock :
          (StatementId(t1) = StatementId(t2)) <=> (t1 = t2))
  /\ [](\A g \in grants :
          \E t \in 0..clock : g.StatementId = "apigateway-" \o ToString(t))

\* Two grant calls of the same second, for two endpoints: the first made the
\* grant, the second carries the same statement id (and is refused for it).
C26_Witness ==
  /\ Running("create-api")
  /\ Len(calls) = 9
  /\ clock = 0
  /\ calls[9].args.StatementId = "apigateway-0"
  /\ calls[9].args.SourceArn \notin {g.SourceArn : g \in grants}
  /\ \E g \in grants : g.StatementId = calls[9].args.StatementId
  /\ calls[9].response.error.code = "ResourceConflictException"

\* A create for the function fn succeeded with the endpoint E, and E was not
\* deleted since: E is deployed (the last step of create) and the account
\* holds the grant create made for E and fn.
CreatedFor(E, fn) ==
  /\ E \in DOMAIN apis
  /\ apis[E].deployments # {}
  /\ \E g \in grants, region \in SessionRegions :
       /\ g.FunctionName = fn
       /\ g.SourceArn = "arn:aws:execute-api:" \o region \o ":"
                        \o ArnField(FunctionArns[fn], 5) \o ":" \o E
                        \o "/*/*/" \o fn

\* The running test_invoke is for the endpoint of a successful create and
\* the path "/" + fn of its function, and its listing call returned the
\* nodes the endpoint has (a consistent read).
RoundTrip ==
  /\ Running("test-invoke")
  /\ Len(calls) >= 1
  /\ ~Failed(1)
  /\ \E fn \in DOMAIN FunctionArns :
       /\ CreatedFor(cmd.api_id, fn)
       /\ cmd.resource_path = "/" \o fn
  /\ calls[1].response.value.items = apis[cmd.api_id].resources

\* C27: after a successful create with endpoint E for the function fn, and
\* before E is deleted, a test_invoke of E and "/" + fn whose listing call
\* returns the nodes of E does not fail with the local not-found error: it
\* goes on to the test-invoke call, issued for E and the child node create
\* made.
C27_RoundTrip ==
  RoundTrip =>
    /\ result # Raise(ResourceNotFound(cmd.resource_path))
    /\ \/ pc = "test_invoke_api.test_invoke_method"
       \/ /\ Done
          /\ Len(calls) = 2
          /\ calls[2].op = "test_invoke_method"
          /\ calls[2].args.restApiId = cmd.api_id
          /\ calls[2].args.resourceId = ResourceIdOf(ApiNumber(cmd.api_id))
          /\ result = calls[2].response
    /\ loc.resource_id = ResourceIdOf(ApiNumber(cmd.api_id))
    /\ PathOf(apis[cmd.api_id], loc.resource_id) = cmd.resource_path

C27_Witness ==
  /\ RoundTrip
  /\ Done
  /\ cmd.resource_path = "/demo-fn"
  /\ calls[2].args.resourceId = "res" \o ToString(ApiNumber(cmd.api_id))
  /\ result = Return([status |-> 200, body |-> "ok"])

\* What the resolver that did not run passes to boto3.Session for the
\* profile and region of the running invocation.
OtherResolver ==
  IF Resolving THEN _create_session(cmd.profile, cmd.region)
  ELSE get_session(cmd.profile, cmd.region)

\* C28: for "latest" (region only) and for every non-empty profile name
\* (profile and region) the two resolvers pass the same arguments to
\* boto3.Session; for an absent and for an empty profile they differ:
\* get_session passes the region only, _create_session passes the profile as
\* given, with the region.
C28_ResolversAgree ==
  Resolved =>
    LET passed == sessionCalls[1]
        both == [profile_name |-> cmd.profile, region_name |-> cmd.region]
        regionOnly == [region_name |-> cmd.region]
    IN /\ Len(sessionCalls) = 1
       /\ cmd.profile = "latest" =>
            passed = regionOnly /\ OtherResolver = regionOnly
       /\ cmd.profile \notin {"latest", None, ""} =>
            passed = both /\ OtherResolver = both
       /\ cmd.profile \in {None, ""} =>
            /\ passed # OtherResolver
            /\ get_session(cmd.profile, cmd.region) = regionOnly
            /\ _create_session(cmd.profile, cmd.region) = both

\* _create_session was run on the empty profile name and passed it on.
C28_Witness ==
  /\ Running("APIGatewayLambdaIntegration")
  /\ cmd.profile = ""
  /\ sessionCalls = <<[profile_name |-> "", region_name |-> "eu-west-1"]>>
  /\ get_session("", "eu-west-1") = [region_name |-> "eu-west-1"]

====
